---- MODULE Spec2Model ----
(***************************************************************************)
(* Model of the GridApplication scripts.                                   *)
(*                                                                         *)
(*   make_Grid.py            grid builder: best_utm, anchoring, row-major  *)
(*                           scan with clipping, the two GeoJSON outputs   *)
(*   agents_to_cell_csvs.py  point-to-cell bucketizer: spatial join        *)
(*                           "within", per-cell CSV append                 *)
(*                                                                         *)
(* Planar geometry is modelled exactly on an integer lattice.  A closed    *)
(* point set is a set of lattice elements in DOUBLED coordinates <<a, b>>: *)
(*   a odd,  b odd   the open unit square (a face) centred there           *)
(*   a even, b odd   an open vertical unit edge                            *)
(*   a odd,  b even  an open horizontal unit edge                          *)
(*   a even, b even  a lattice vertex                                      *)
(* The closed box [x0,x1] x [y0,y1] with integer corners is the set of     *)
(* elements with 2*x0 <= a <= 2*x1 and 2*y0 <= b <= 2*y1, and the          *)
(* intersection of two closed rectilinear sets is set intersection.        *)
(***************************************************************************)
EXTENDS Integers, Sequences, FiniteSets, TLC

(* ------------------------------ bounds -------------------------------- *)
\* Width and height, in lattice units, of the window the AOIs are drawn from.
W == 3
H == 3
\* Largest absolute cell size tried, in lattice units.
MaxCell == 3
\* Longitude / latitude resolution: units per degree.
LonUnit == 2

\* The window is [-W, 0] x [0, H]: x in XLo..XHi is never positive, y in
\* YLo..YHi never negative, and its corner (XHi, YLo) is the origin.
XLo == -W
XHi == XLo + W
YLo == XHi
YHi == YLo + H

(* ------------------------------ arithmetic ---------------------------- *)
Min2(a, b) == IF a <= b THEN a ELSE b
Max2(a, b) == IF a >= b THEN a ELSE b
SetMin(S) == CHOOSE m \in S : \A x \in S : m <= x
SetMax(S) == CHOOSE m \in S : \A x \in S : m >= x

\* math.floor(a / b), b # 0, for either sign of b.
floor_div(a, b) == IF b > 0 THEN a \div b ELSE (-a) \div (-b)

\* math.ceil(a / b), b # 0.
ceil_div(a, b) == -floor_div(-a, b)

(* ------------------------------ geometry ------------------------------ *)
\* shapely.geometry.box(x0, y0, x1, y1) as a closed point set; the corners
\* may come in either order.
box(x0, y0, x1, y1) ==
    {<<a, b>> : a \in (2 * Min2(x0, x1))..(2 * Max2(x0, x1)),
                b \in (2 * Min2(y0, y1))..(2 * Max2(y0, y1))}

IsFace(p) == p[1] % 2 = 1 /\ p[2] % 2 = 1
FacesOf(S) == {p \in S : IsFace(p)}
\* The closed unit square around a face element.
FaceClosure(p) == {<<a, b>> : a \in (p[1] - 1)..(p[1] + 1), b \in (p[2] - 1)..(p[2] + 1)}
\* The polygonal part of a point set: the closure of its faces.
PolygonalPart(S) == UNION {FaceClosure(p) : p \in FacesOf(S)}

\* geom.area, in lattice units squared.
area(S) == Cardinality(FacesOf(S))
\* geom.is_empty
is_empty(S) == S = {}
\* geom.bounds of a non-empty set, in lattice units.
bounds(S) ==
    [minx |-> SetMin({p[1] : p \in S}) \div 2, miny |-> SetMin({p[2] : p \in S}) \div 2,
     maxx |-> SetMax({p[1] : p \in S}) \div 2, maxy |-> SetMax({p[2] : p \in S}) \div 2]

\* The class of a geometry as the isinstance tests of to_wgs_geom see it: an
\* intersection with faces only is a Polygon or MultiPolygon, one without
\* faces is a Point / LineString / Multi*, a mix is a GeometryCollection.
geom_type(S) ==
    IF S = {} THEN "Empty"
    ELSE IF FacesOf(S) = {} THEN "LowerDim"
    ELSE IF S = PolygonalPart(S) THEN "Polygonal"
    ELSE "GeometryCollection"

\* prepared.intersects(cell): the closed sets share a point.
intersects(A, B) == A \cap B # {}
\* cell.intersection(aoi_m) of two valid geometries.
intersection(A, B) == A \cap B

(* ------------------------------ inputs -------------------------------- *)
\* Rectangles of the window with positive width and height.
Rects ==
    {box(q[1], q[2], q[3], q[4]) :
        q \in {t \in (XLo..XHi) \X (YLo..YHi) \X (XLo..XHi) \X (YLo..YHi) :
                 t[1] < t[3] /\ t[2] < t[4]}}

\* Valid AOIs: one rectangle, the union of two (L shapes, T shapes, two
\* separate parts, two parts touching at a corner), or a rectangle with a
\* rectangular piece cut out (holes, notches, U shapes).
AreaSets ==
    {PolygonalPart(R1 \cup R2) : R1 \in Rects, R2 \in Rects}
      \cup {S \in {PolygonalPart(FacesOf(R1) \ FacesOf(R2)) : R1 \in Rects, R2 \in Rects} : S # {}}

\* Zero-area AOIs: a polygon collapsed to an axis-parallel segment or to a point.
SegmentSets ==
    {box(x0, y, x1, y) : x0 \in XLo..XHi, x1 \in XLo..XHi, y \in YLo..YHi}
      \cup {box(x, y0, x, y1) : x \in XLo..XHi, y0 \in YLo..YHi, y1 \in YLo..YHi}

AOIs ==
    {[kind |-> "area", pts |-> S] : S \in AreaSets}
      \cup {[kind |-> "collapsed", pts |-> S] : S \in SegmentSets}
      \cup {[kind |-> "empty", pts |-> {}]}

\* CELL = 100.0 is a literal of main: the cell is CELL lattice units wide, so
\* the values stand for the AOI's size and position relative to the 100 m cell.
CellSizes == 1..MaxCell

\* Centroids of the AOI in geographic coordinates, in 1/LonUnit degrees.
Lons == (-180 * LonUnit)..(180 * LonUnit)
Lats == {-90 * LonUnit, -1, 0, 1, 90 * LonUnit}
\* The centroid the grid-builder runs are checked with (75.5 W, 40 N).
SampleLon == -(75 * LonUnit + 1)
SampleLat == 40 * LonUnit

(* ------------------------------ state --------------------------------- *)
VARIABLES
    \* make_Grid.main
    aoi,              \* the AOI, in planar coordinates (aoi_m)
    CELL,             \* the cell size
    lon, lat,         \* the AOI centroid (cent.x, cent.y)
    pc,               \* "start", "bounds", "scan", "write", "done", "failed"
    err,              \* the exception that ended the run, or "none"
    utm,              \* [zone, epsg] chosen by best_utm
    start_x, start_y, cols, rows,
    r, c,             \* the loop indices
    cell_id,
    features_metric, features_wgs84,
    out_metric, out_wgs84,   \* the two output files
    \* agents_to_cell_csvs.main
    env,              \* what the bucketizer runs may be given:
                      \* [rows, max_rows, bucket_ids, output_filenames]
    budget,           \* bucketizer runs left
    fs,               \* the output root: path of a CSV file -> its rows
    history           \* the runs made so far, as <<batch, bucket_id, output_filename>>

builder_vars == <<aoi, CELL, lon, lat, pc, err, utm, start_x, start_y, cols, rows, r, c,
                  cell_id, features_metric, features_wgs84, out_metric, out_wgs84>>
bucket_vars == <<env, budget, fs, history>>
vars == <<builder_vars, bucket_vars>>

NoFile == [exists |-> FALSE, features |-> << >>]

(* ------------------------------ make_Grid.py -------------------------- *)
\* best_utm(lon, lat): zone = int((lon + 180)//6) + 1, epsg by hemisphere.
best_utm(lo, la) ==
    LET zone == floor_div(lo + 180 * LonUnit, 6 * LonUnit) + 1
    IN  [zone |-> zone, epsg |-> IF la >= 0 THEN 32600 + zone ELSE 32700 + zone]

\* start_x = math.floor(minx / CELL) * CELL
grid_start_trunc(minv, cs) ==
    LET q == (IF minv < 0 THEN -minv ELSE minv) \div (IF cs < 0 THEN -cs ELSE cs)
    IN  (IF (minv < 0) = (cs < 0) THEN q ELSE -q) * cs
grid_start(minv, cs) == floor_div(minv, cs) * cs

\* cols = int(math.ceil((maxx - start_x) / CELL))
grid_count(maxv, start, cs) == ceil_div(maxv - start, cs)

\* cell = box(x0, y0, x0 + CELL, y0 + CELL) with x0 = start_x + c * CELL,
\* y0 = start_y + r * CELL
cell_box_swapped(sx, sy, rr, cc, cs) ==
    box(sx + rr * cs, sy + cc * cs, sx + rr * cs + cs, sy + cc * cs + cs)
cell_box(sx, sy, rr, cc, cs) ==
    box(sx + cc * cs, sy + rr * cs, sx + cc * cs + cs, sy + rr * cs + cs)

\* The values cell.intersection(aoi_m) can return.  For a valid AOI it is the
\* intersection.  A polygon collapsed to a segment or a point is an invalid
\* geometry, on which the overlay is unspecified: it may treat the collapsed
\* ring as empty, return the lower-dimensional intersection, or raise.
clip_results(a, cell) ==
    IF a.kind = "area" THEN {[raised |-> FALSE, geom |-> intersection(cell, a.pts)]}
    ELSE {[raised |-> FALSE, geom |-> {}],
          [raised |-> FALSE, geom |-> intersection(cell, a.pts)],
          [raised |-> TRUE, geom |-> {}]}

\* to_wgs_geom accepts a Polygon or a MultiPolygon and raises TypeError on
\* anything else.
to_wgs_accepts(g) == geom_type(g) = "Polygonal"
\* The geometry re-expressed in geographic coordinates, vertex by vertex.
to_wgs_geom(g) == [crs |-> 4326, of |-> g]

metric_feature(id, rr, cc, u, inter) ==
    [cell_id |-> id, row |-> rr, col |-> cc, utm_crs |-> u.epsg,
     area_m2 |-> area(inter), geometry |-> inter]
\* The geographic feature as it would be built after cell_id += 1.
wgs_feature_next_id(id, rr, cc, inter) ==
    [cell_id |-> id + 1, row |-> rr, col |-> cc,
     area_m2 |-> area(inter), geometry |-> to_wgs_geom(inter)]
wgs_feature(id, rr, cc, inter) ==
    [cell_id |-> id, row |-> rr, col |-> cc,
     area_m2 |-> area(inter), geometry |-> to_wgs_geom(inter)]

\* cell_id += 1 closes the emitting branch only; a skipped square leaves it.
id_after_any(id, emitted) == id + 1
id_after(id, emitted) == IF emitted THEN id + 1 ELSE id

\* Lines 70-79: load the AOI, take its centroid, choose the UTM zone and
\* project.  An empty AOI has a NaN centroid, which int() rejects.
SelectUtm ==
    /\ pc = "start"
    /\ IF aoi.kind = "empty"
       THEN /\ pc' = "failed" /\ err' = "ValueError" /\ utm' = utm
       ELSE /\ pc' = "bounds" /\ err' = err /\ utm' = best_utm(lon, lat)
    /\ UNCHANGED <<aoi, CELL, lon, lat, start_x, start_y, cols, rows, r, c, cell_id,
                   features_metric, features_wgs84, out_metric, out_wgs84, bucket_vars>>

\* Lines 81-90: anchor the grid and size it.
\* range(rows) or range(cols) is empty when the count is not positive.
ComputeBounds ==
    /\ pc = "bounds"
    /\ LET b == bounds(aoi.pts)
           sx == grid_start(b.minx, CELL)
           sy == grid_start(b.miny, CELL)
           nc == grid_count(b.maxx, sx, CELL)
           nr == grid_count(b.maxy, sy, CELL)
       IN  /\ start_x' = sx /\ start_y' = sy /\ cols' = nc /\ rows' = nr
           /\ pc' = IF nr > 0 /\ nc > 0 THEN "scan" ELSE "write"
           /\ err' = err
    /\ UNCHANGED <<aoi, CELL, lon, lat, utm, r, c, cell_id,
                   features_metric, features_wgs84, out_metric, out_wgs84, bucket_vars>>

\* Lines 95-118: one pass of the inner loop body, for the square (r, c).
ScanCell ==
    /\ pc = "scan"
    /\ LET cell == cell_box(start_x, start_y, r, c, CELL)
           last == (c + 1 = cols) /\ (r + 1 = rows)
           advance == /\ c' = IF c + 1 = cols THEN 0 ELSE c + 1
                      /\ r' = IF c + 1 = cols THEN r + 1 ELSE r
                      /\ pc' = IF last THEN "write" ELSE "scan"
                      /\ err' = err
           skip == /\ advance
                   /\ cell_id' = id_after(cell_id, FALSE)
                   /\ UNCHANGED <<features_metric, features_wgs84>>
       IN  IF ~intersects(aoi.pts, cell)
           THEN skip
           ELSE \E res \in clip_results(aoi, cell) :
                LET inter == res.geom IN
                  IF res.raised
                  THEN /\ pc' = "failed" /\ err' = "GEOSException"
                       /\ UNCHANGED <<r, c, cell_id, features_metric, features_wgs84>>
                  ELSE IF is_empty(inter)
                  THEN skip
                  ELSE /\ features_metric' =
                            Append(features_metric, metric_feature(cell_id, r, c, utm, inter))
                       /\ IF to_wgs_accepts(inter)
                          THEN /\ features_wgs84' =
                                    Append(features_wgs84, wgs_feature(cell_id, r, c, inter))
                               /\ cell_id' = id_after(cell_id, TRUE)
                               /\ advance
                          ELSE /\ pc' = "failed" /\ err' = "TypeError"
                               /\ UNCHANGED <<r, c, cell_id, features_wgs84>>
    /\ UNCHANGED <<aoi, CELL, lon, lat, utm, start_x, start_y, cols, rows,
                   out_metric, out_wgs84, bucket_vars>>

\* Lines 120-126: write the two feature collections.
WriteOutputs ==
    /\ pc = "write"
    /\ out_metric' = [exists |-> TRUE, features |-> features_metric]
    /\ out_wgs84' = [exists |-> TRUE, features |-> features_wgs84]
    /\ pc' = "done"
    /\ UNCHANGED <<aoi, CELL, lon, lat, err, utm, start_x, start_y, cols, rows, r, c,
                   cell_id, features_metric, features_wgs84, bucket_vars>>

BuilderStart ==
    /\ pc = "start" /\ err = "none" /\ utm = [zone |-> 0, epsg |-> 0]
    /\ start_x = 0 /\ start_y = 0 /\ cols = 0 /\ rows = 0 /\ r = 0 /\ c = 0
    /\ cell_id = 0 /\ features_metric = << >> /\ features_wgs84 = << >>
    /\ out_metric = NoFile /\ out_wgs84 = NoFile

BucketIdle ==
    /\ env = [rows |-> {}, max_rows |-> 0, bucket_ids |-> {}, output_filenames |-> {}]
    /\ budget = 0 /\ fs = << >> /\ history = << >>

(* ------------------------------ agents_to_cell_csvs.py ---------------- *)
\* A parquet row is [agent, ts, pt]: pt is the lattice element the point
\* (longitude, latitude) falls in, in the frame of the grid: the inside of a
\* unit square, the inside of a unit edge, or a lattice vertex.

\* The faces around a lattice element: the element itself for a face, the two
\* sides of an edge, the four quadrants of a vertex.
Star(pt) == {f \in {<<pt[1] + da, pt[2] + db>> : da \in -1..1, db \in -1..1} : IsFace(f)}

\* predicate="within": the point lies in the interior of the cell polygon.
within_closed(pt, g) == pt \in g
within(pt, g) == Star(pt) \subseteq g

\* gpd.sjoin(pts, grid, predicate="within", how="inner"): one joined row for
\* every (point, cell) pair that satisfies the predicate, in row order.
RECURSIVE sjoin(_, _)
sjoin(batch, cells) ==
    IF batch = << >> THEN << >>
    ELSE LET row == Head(batch)
             hits == SelectSeq(cells, LAMBDA f : within(row.pt, f.geometry.of))
         IN  [i \in 1..Len(hits) |-> [row |-> row, cell_id |-> hits[i].cell_id]]
               \o sjoin(Tail(batch), cells)

\* out_df.sort_values(by=time_col): the orders the sort can leave the rows in.
\* The default kind is quicksort, which is not stable, so rows with equal
\* times may come out in any order.
RECURSIVE sort_values(_)
sort_values(rows_) ==
    IF rows_ = << >> THEN {<< >>}
    ELSE LET t == SetMin({rows_[i].ts : i \in 1..Len(rows_)})
         IN  UNION {{<<rows_[k]>> \o rest :
                       rest \in sort_values(SubSeq(rows_, 1, k - 1)
                                              \o SubSeq(rows_, k + 1, Len(rows_)))} :
                    k \in {i \in 1..Len(rows_) : rows_[i].ts = t}}

\* --output-filename: << >> when the option is not given (None), else the
\* name given.
NoFilename == << >>
\* out_name = args.output_filename or f"visits_bucket{args.bucket_id}.csv"
out_name(fn, b) == IF fn = NoFilename THEN <<"visits_bucket", b, ".csv">> ELSE fn
\* out_csv = out_root / f"cell_{cell_id}" / out_name
csv_path(k, b, fn) == [folder |-> k, file |-> out_name(fn, b)]

HeaderRow == [kind |-> "header", agent |-> 0, pt |-> <<0, 0>>, ts |-> 0, cell_id |-> 0, bucket_id |-> 0]
data_row(j, b) ==
    [kind |-> "data", agent |-> j.row.agent, pt |-> j.row.pt, ts |-> j.row.ts,
     cell_id |-> j.cell_id, bucket_id |-> b]

\* write_header = not out_csv.exists()
write_header_always(f, path) == TRUE
write_header(f, path) == path \notin DOMAIN f

\* out_df.to_csv(out_csv, mode="a", header=write_header, index=False)
to_csv(f, path, rows_) ==
    LET old == IF path \in DOMAIN f THEN f[path] ELSE << >>
        new == old \o (IF write_header(f, path) THEN <<HeaderRow>> ELSE << >>) \o rows_
    IN  [q \in DOMAIN f \cup {path} |-> IF q = path THEN new ELSE f[q]]

\* The loop over joined.groupby("cell_id", sort=True), from cell id k upward:
\* the output roots it can leave, one for every order the sorts may pick.
RECURSIVE write_groups(_, _, _, _, _)
write_groups(f, joined, b, fn, ids) ==
    IF ids = {} THEN {f}
    ELSE LET k == SetMin(ids)
             sub == SelectSeq(joined, LAMBDA j : j.cell_id = k)
         IN  UNION {write_groups(to_csv(f, csv_path(k, b, fn), data), joined, b, fn, ids \ {k}) :
                      data \in sort_values([i \in 1..Len(sub) |-> data_row(sub[i], b)])}

\* main: read the grid, join, and append one CSV per cell hit.  A grid file
\* without features has no cell_id column (KeyError); an empty join returns
\* before anything is written.
run_bucketizer(f, cells, batch, b, fn) ==
    IF cells = << >> THEN {f}
    ELSE LET joined == sjoin(batch, cells)
         IN  IF joined = << >> THEN {f}
             ELSE write_groups(f, joined, b, fn, {joined[i].cell_id : i \in 1..Len(joined)})

\* The parquet files a run may be given: up to max_rows rows of env.rows, in
\* agent order.
RECURSIVE SeqOfRows(_)
SeqOfRows(R) ==
    IF R = {} THEN << >>
    ELSE LET a == SetMin({x.agent : x \in R})
             x == CHOOSE y \in R : y.agent = a
         IN  <<x>> \o SeqOfRows(R \ {x})
RECURSIVE SubsetsUpTo(_, _)
SubsetsUpTo(R, k) ==
    IF k = 0 THEN {{}}
    ELSE LET S == SubsetsUpTo(R, k - 1) IN S \cup {Q \cup {x} : Q \in S, x \in R}
Batches == {SeqOfRows(R) : R \in SubsetsUpTo(env.rows, env.max_rows) \ {{}}}

\* One run of the bucketizer on the WGS84 grid file the builder wrote.
BucketizerRun ==
    /\ pc = "done" /\ budget > 0
    /\ \E batch \in Batches, b \in env.bucket_ids, fn \in env.output_filenames :
          /\ fs' \in run_bucketizer(fs, out_wgs84.features, batch, b, fn)
          /\ history' = Append(history, <<batch, b, fn>>)
    /\ budget' = budget - 1
    /\ UNCHANGED <<builder_vars, env>>

\* The grid builder over every AOI and cell size.
Init ==
    /\ aoi \in AOIs /\ CELL \in CellSizes
    /\ lon = SampleLon /\ lat = SampleLat
    /\ BuilderStart /\ BucketIdle

Next == SelectUtm \/ ComputeBounds \/ ScanCell \/ WriteOutputs

Spec == Init /\ [][Next]_vars

\* best_utm alone, over every centroid.
SampleAOI == [kind |-> "area", pts |-> box(0, 0, 1, 1)]
InitUtm ==
    /\ aoi = SampleAOI /\ CELL = 1
    /\ lon \in Lons /\ lat \in Lats
    /\ BuilderStart /\ BucketIdle

NextUtm == SelectUtm

SpecUtm == InitUtm /\ [][NextUtm]_vars

\* Repeated bucketizer runs into one output root, over a two-cell and a
\* one-cell grid of the 2 x 1 rectangle.
MaxRuns == 2
MaxBucket == 1
BucketRows ==
    {[agent |-> 1, ts |-> 2, pt |-> <<-3, 1>>], [agent |-> 2, ts |-> 1, pt |-> <<-3, 1>>],
     [agent |-> 3, ts |-> 1, pt |-> <<-1, 1>>], [agent |-> 4, ts |-> 3, pt |-> <<-2, 1>>]}
InitBucket ==
    /\ aoi = [kind |-> "area", pts |-> box(-2, 0, 0, 1)] /\ CELL \in {1, 2}
    /\ lon = SampleLon /\ lat = SampleLat
    /\ BuilderStart
    /\ env = [rows |-> BucketRows, max_rows |-> Cardinality(BucketRows),
              bucket_ids |-> 0..MaxBucket, output_filenames |-> {NoFilename}]
    /\ budget = MaxRuns /\ fs = << >> /\ history = << >>

NextBucket == Next \/ BucketizerRun

SpecBucket == InitBucket /\ [][NextBucket]_vars

\* The same runs of at most two rows each, with --output-filename given or not.
InitNamed ==
    /\ aoi = [kind |-> "area", pts |-> box(-2, 0, 0, 1)] /\ CELL \in {1, 2}
    /\ lon = SampleLon /\ lat = SampleLat
    /\ BuilderStart
    /\ env = [rows |-> BucketRows, max_rows |-> 2,
              bucket_ids |-> 0..MaxBucket, output_filenames |-> {NoFilename, <<"visits.csv">>}]
    /\ budget = MaxRuns /\ fs = << >> /\ history = << >>

NextNamed == Next \/ BucketizerRun

SpecNamed == InitNamed /\ [][NextNamed]_vars

\* One bucketizer run of a single point against every grid the builder makes.
Elements == {<<a, b>> : a \in (2 * XLo - 1)..(2 * XHi + 1), b \in (2 * YLo - 1)..(2 * YHi + 1)}
InitJoin ==
    /\ aoi \in {a \in AOIs : a.kind = "area"} /\ CELL \in 1..MaxCell
    /\ lon = SampleLon /\ lat = SampleLat
    /\ BuilderStart
    /\ env = [rows |-> {[agent |-> 1, ts |-> 1, pt |-> e] : e \in Elements},
              max_rows |-> 1, bucket_ids |-> {0}, output_filenames |-> {NoFilename}]
    /\ budget = 1 /\ fs = << >> /\ history = << >>

NextJoin == Next \/ BucketizerRun

SpecJoin == InitJoin /\ [][NextJoin]_vars

(* ------------------------------ grid-builder claims ------------------- *)
Emitted == {features_metric[i] : i \in 1..Len(features_metric)}
RowMajorLess(f, g) == f.row < g.row \/ (f.row = g.row /\ f.col < g.col)
LoopFinished == pc \in {"write", "done"}
Anchored == pc \in {"scan", "write", "done"} \/ (pc = "failed" /\ err \in {"TypeError", "GEOSException"})
\* The square footprint of grid position (rr, cc).
Footprint(rr, cc) ==
    box(start_x + cc * CELL, start_y + rr * CELL,
        start_x + cc * CELL + CELL, start_y + rr * CELL + CELL)
\* The square shares only boundary points with the AOI.
DegenerateTouch(rr, cc) ==
    LET S == Footprint(rr, cc) \cap aoi.pts IN S # {} /\ FacesOf(S) = {}
\* The face is a hole of S: it is missing from S and its whole boundary is in S.
IsHole(f, S) == IsFace(f) /\ f \notin S /\ (FaceClosure(f) \ {f}) \subseteq S
\* The cells of the metric output file; none when the run wrote no file.
Written == IF out_metric.exists THEN out_metric.features ELSE << >>
RunEnded == pc \in {"done", "failed"}
RECURSIVE SumArea(_)
SumArea(fs_) == IF fs_ = << >> THEN 0 ELSE Head(fs_).area_m2 + SumArea(Tail(fs_))

\* C1: when the scan loop has finished with N emitted cells, their cell_id
\* values are exactly 0..N-1 without gap or repeat, and cell_id order is the
\* row-major order of (row, col).
C1_CellIdsContiguousRowMajor ==
    LoopFinished =>
        LET N == Len(features_metric) IN
        /\ cell_id = N
        /\ {features_metric[i].cell_id : i \in 1..N} = 0..(N - 1)
        /\ \A i, j \in 1..N :
              /\ (i # j) => features_metric[i].cell_id # features_metric[j].cell_id
              /\ (features_metric[i].cell_id < features_metric[j].cell_id)
                    <=> RowMajorLess(features_metric[i], features_metric[j])
\* A finished run with at least three cells and at least one skipped square.
C1_Witness ==
    /\ pc = "done" /\ CELL > 0 /\ aoi.kind = "area"
    /\ Len(features_metric) >= 3 /\ Len(features_metric) < rows * cols

\* C2: every emitted cell's geometry is non-empty and is the intersection of
\* its square footprint with the AOI: inside the AOI, and not the uncut square
\* when the square sticks out of the AOI; a square that misses the AOI emits
\* nothing.
C2_GeometryIsClippedFootprint ==
    \A f \in Emitted :
        /\ f.geometry # {}
        /\ f.geometry = Footprint(f.row, f.col) \cap aoi.pts
        /\ f.geometry \subseteq aoi.pts
        /\ ~(Footprint(f.row, f.col) \subseteq aoi.pts) => f.geometry # Footprint(f.row, f.col)
\* A finished run with a clipped cell off the diagonal of the grid.
C2_Witness ==
    /\ pc = "done" /\ CELL > 1
    /\ \E f \in Emitted : f.row # f.col /\ f.geometry # Footprint(f.row, f.col) /\ f.area_m2 > 0

\* C3: for every AOI with area (holes and several parts included), when the
\* run has ended the cells it wrote cover the AOI exactly: their union is the
\* AOI, no area lies in two cells, and their area_m2 values add up to the
\* AOI's area.
C3_CoverageComplete ==
    (aoi.kind = "area" /\ RunEnded) =>
        /\ UNION {Written[i].geometry : i \in 1..Len(Written)} = aoi.pts
        /\ \A i, j \in 1..Len(Written) :
              (i # j) => FacesOf(Written[i].geometry) \cap FacesOf(Written[j].geometry) = {}
        /\ SumArea(Written) = area(aoi.pts)

\* The runs that end without an error do cover the AOI: the loss of coverage
\* comes with the TypeError of to_wgs_geom alone.
CoverageOfCompletedRuns ==
    /\ (aoi.kind = "area" /\ pc = "done") =>
          /\ UNION {Written[i].geometry : i \in 1..Len(Written)} = aoi.pts
          /\ \A i, j \in 1..Len(Written) :
                (i # j) => FacesOf(Written[i].geometry) \cap FacesOf(Written[j].geometry) = {}
          /\ SumArea(Written) = area(aoi.pts)
    /\ (aoi.kind = "area" /\ pc = "failed") => err = "TypeError" /\ Written = << >>
\* An AOI with a hole, cut into several squares, ends in the TypeError: the
\* square of the hole meets the AOI in the hole's boundary only.
HoleRunFails ==
    /\ pc = "failed" /\ err = "TypeError" /\ rows * cols >= 4
    /\ \E a \in (2 * XLo)..(2 * XHi), b \in (2 * YLo)..(2 * YHi) : IsHole(<<a, b>>, aoi.pts)
\* An AOI of two separate parts ends in the TypeError as well.
TwoPartRunFails ==
    /\ pc = "failed" /\ err = "TypeError"
    /\ aoi.pts = box(-3, 0, -2, 1) \cup box(-1, 0, 0, 1)

\* C4: a scanned square that shares only an edge or a corner with the AOI
\* emits no cell and does not end the run.
C4_DegenerateTouchSkipped ==
    (aoi.kind = "area" /\ CELL > 0 /\ Anchored) =>
        \A rr \in 0..(rows - 1), cc \in 0..(cols - 1) :
            DegenerateTouch(rr, cc) =>
                /\ ~\E f \in Emitted : f.row = rr /\ f.col = cc
                /\ ~(pc = "failed" /\ r = rr /\ c = cc)

\* C5: for a centroid with longitude in [-180, 180] and latitude in
\* [-90, 90], best_utm picks a zone in 1..60 whose six-degree band holds the
\* longitude, and EPSG 32600 + zone for latitude >= 0, 32700 + zone below.
C5_ZoneCoversCentroid ==
    (pc = "bounds") =>
        /\ utm.zone \in 1..60
        /\ (-180 + 6 * (utm.zone - 1)) * LonUnit <= lon
        /\ lon <= (-180 + 6 * utm.zone) * LonUnit
        /\ utm.epsg = (IF lat >= 0 THEN 32600 ELSE 32700) + utm.zone

\* C6: for a positive cell size, start_x and start_y are the greatest
\* multiples of CELL at or below the bounding-box minimum, and cols and rows
\* are the least non-negative counts that reach the maximum; the aligned
\* 2 x 1 rectangle with CELL = 1 gives 1 row and 2 columns.
C6_AnchorAndExtent ==
    (Anchored /\ CELL > 0) =>
        LET b == bounds(aoi.pts) IN
        /\ (aoi.pts = box(-2, 0, 0, 1) /\ CELL = 1) => (rows = 1 /\ cols = 2)
        /\ start_x % CELL = 0 /\ start_x <= b.minx /\ b.minx < start_x + CELL
        /\ start_y % CELL = 0 /\ start_y <= b.miny /\ b.miny < start_y + CELL
        /\ cols >= 0 /\ start_x + cols * CELL >= b.maxx
        /\ cols > 0 => start_x + (cols - 1) * CELL < b.maxx
        /\ rows >= 0 /\ start_y + rows * CELL >= b.maxy
        /\ rows > 0 => start_y + (rows - 1) * CELL < b.maxy
\* A finished run whose bounding box starts at a negative coordinate off the grid.
C6_Witness ==
    /\ pc = "done" /\ CELL > 1 /\ aoi.kind = "area"
    /\ bounds(aoi.pts).minx < 0 /\ start_x < bounds(aoi.pts).minx
    /\ start_y < bounds(aoi.pts).miny /\ cols >= 2

\* C8: a zero-area AOI never makes the run fail and never emits a cell.
C8_DegenerateAoiZeroCells ==
    (aoi.kind \in {"collapsed", "empty"} /\ CELL > 0) =>
        /\ pc # "failed"
        /\ features_metric = << >>
(* ------------------------------ bucketizer claims --------------------- *)
\* The clipped polygon of cell k in the grid the builder wrote.
CellGeom(k) ==
    (CHOOSE f \in {out_metric.features[i] : i \in 1..Len(out_metric.features)} : f.cell_id = k).geometry
CellIds == {out_metric.features[i].cell_id : i \in 1..Len(out_metric.features)}
\* The point lies strictly inside the polygon: every face around it is part of it.
InInterior(pt, g) == \A f \in Star(pt) : f \in g
CountIn(seq, x) == Cardinality({i \in 1..Len(seq) : seq[i] = x})
\* How often run n was given the row, when run n carried bucket id b.
HitsOfRun(n, b, row) ==
    IF history[n][2] = b /\ history[n][3] = NoFilename THEN CountIn(history[n][1], row) ELSE 0
RECURSIVE HitsUpTo(_, _, _)
HitsUpTo(n, b, row) == IF n = 0 THEN 0 ELSE HitsUpTo(n - 1, b, row) + HitsOfRun(n, b, row)
AsData(row, k, b) ==
    [kind |-> "data", agent |-> row.agent, pt |-> row.pt, ts |-> row.ts, cell_id |-> k, bucket_id |-> b]

\* The runs so far were all made without --output-filename.
DefaultNamesOnly == \A n \in 1..Len(history) : history[n][3] = NoFilename

\* C9: when every run used the default filename, every per-cell file that
\* exists is some cell_<id>/visits_bucket<B>.csv, starts with its one header
\* row, holds after it only data rows of its own cell and bucket id B, and
\* holds every row that every run with bucket id B put into that cell; a run
\* that hit a cell left a file for its bucket id there.
C9_HeaderOnceThenData ==
    DefaultNamesOnly =>
    /\ \A path \in DOMAIN fs :
          \E b \in env.bucket_ids :
             /\ path = csv_path(path.folder, b, NoFilename)
             /\ Len(fs[path]) >= 2
             /\ fs[path][1] = HeaderRow
             /\ \A i \in 2..Len(fs[path]) :
                   /\ fs[path][i].kind = "data"
                   /\ fs[path][i].cell_id = path.folder
                   /\ fs[path][i].bucket_id = b
             /\ \A row \in env.rows :
                   CountIn(fs[path], AsData(row, path.folder, b))
                     = IF InInterior(row.pt, CellGeom(path.folder))
                       THEN HitsUpTo(Len(history), b, row) ELSE 0
    /\ \A n \in 1..Len(history), k \in CellIds :
          (\E i \in 1..Len(history[n][1]) : InInterior(history[n][1][i].pt, CellGeom(k)))
             => csv_path(k, history[n][2], NoFilename) \in DOMAIN fs
\* Two runs with the same bucket id and the default filename have appended
\* to the same cell's file.
C9_Witness ==
    /\ Len(history) = 2 /\ history[1][2] = history[2][2] /\ DefaultNamesOnly
    /\ \E path \in DOMAIN fs :
          /\ path = csv_path(path.folder, history[1][2], NoFilename)
          /\ \A n \in 1..2 : \E i \in 1..Len(history[n][1]) :
                InInterior(history[n][1][i].pt, CellGeom(path.folder))
          /\ Len(fs[path]) >= 3

\* Whatever the file is called, it starts with its one header row.
HeaderOnceAnyName ==
    \A path \in DOMAIN fs :
       /\ Len(fs[path]) >= 2 /\ fs[path][1] = HeaderRow
       /\ \A i \in 2..Len(fs[path]) : fs[path][i].kind = "data" /\ fs[path][i].cell_id = path.folder
\* With --output-filename given, runs with different bucket ids have appended
\* to one file of a cell.
NamedFileShared ==
    \E path \in DOMAIN fs :
       /\ path.file = <<"visits.csv">>
       /\ \E i, j \in 2..Len(fs[path]) : fs[path][i].bucket_id # fs[path][j].bucket_id
\* A run has left two rows of equal time in the order opposite to its batch.
TieSwapped ==
    \E path \in DOMAIN fs : \E i \in 2..(Len(fs[path]) - 1) :
       /\ fs[path][i].ts = fs[path][i + 1].ts
       /\ fs[path][i].bucket_id = fs[path][i + 1].bucket_id
       /\ fs[path][i].agent > fs[path][i + 1].agent
       /\ Len(history) = 1

\* The files that hold the row as a data row.
FilesHolding(row) ==
    {path \in DOMAIN fs : \E i \in 1..Len(fs[path]) :
        /\ fs[path][i].kind = "data" /\ fs[path][i].agent = row.agent
        /\ fs[path][i].pt = row.pt /\ fs[path][i].ts = row.ts}

\* C10: a bucketizer run writes each input point to at most one cell's file,
\* the cell whose clipped polygon has the point strictly inside; a point on a
\* cell boundary or outside every cell is written nowhere.
C10_PointInAtMostOneCell ==
    (Len(history) = 1) =>
        \A i \in 1..Len(history[1][1]) :
            LET row == history[1][1][i]
                files == FilesHolding(row)
            IN  /\ Cardinality(files) <= 1
                /\ \A path \in files : InInterior(row.pt, CellGeom(path.folder))
                /\ \A k \in CellIds :
                      InInterior(row.pt, CellGeom(k))
                         => csv_path(k, history[1][2], history[1][3]) \in files
                /\ (\A k \in CellIds : ~InInterior(row.pt, CellGeom(k))) => files = {}
\* A run whose point lies on the boundary shared by two emitted cells.
C10_Witness ==
    /\ Len(history) = 1 /\ fs = << >>
    /\ \E k1, k2 \in CellIds :
          /\ k1 # k2
          /\ history[1][1][1].pt \in CellGeom(k1)
          /\ history[1][1][1].pt \in CellGeom(k2)

(* ------------------------------ output alignment ---------------------- *)
\* C11: whenever the builder has written its outputs, both files exist, the
\* metric and the geographic feature lists have the same length, and the two
\* features at every index carry the same cell_id, row, col and area_m2 and
\* the same clipped geometry, the geographic one in EPSG:4326 and without the
\* utm_crs tag; so no cell is in one output and not in the other.
C11_ParallelOutputsAligned ==
    (out_metric.exists \/ out_wgs84.exists) =>
        /\ out_metric.exists /\ out_wgs84.exists
        /\ Len(out_metric.features) = Len(out_wgs84.features)
        /\ \A i \in 1..Len(out_metric.features) :
              LET m == out_metric.features[i]
                  g == out_wgs84.features[i]
              IN  /\ g.cell_id = m.cell_id /\ g.row = m.row /\ g.col = m.col
                  /\ g.area_m2 = m.area_m2
                  /\ g.geometry.crs = 4326 /\ g.geometry.of = m.geometry
                  /\ DOMAIN m = DOMAIN g \cup {"utm_crs"} /\ "utm_crs" \notin DOMAIN g
                  /\ m.utm_crs = utm.epsg
        /\ {out_metric.features[i].cell_id : i \in 1..Len(out_metric.features)}
              = {out_wgs84.features[i].cell_id : i \in 1..Len(out_wgs84.features)}
\* Written outputs of three or more cells, one of them clipped, after at
\* least one square was skipped.
C11_Witness ==
    /\ pc = "done" /\ CELL > 0 /\ aoi.kind = "area"
    /\ out_metric.exists /\ out_wgs84.exists
    /\ Len(out_wgs84.features) >= 3 /\ Len(out_wgs84.features) < rows * cols
    /\ \E i \in 1..Len(out_metric.features) : out_metric.features[i].area_m2 < CELL * CELL

====
